---- MODULE Spec2Model ----
(***************************************************************************)
(* proofScore SDK: the assessment / attestation / commitment pipeline.     *)
(*                                                                         *)
(*   ScoringEngine      src/lib/sdk/ScoringEngine.ts                        *)
(*   DataAggregator     src/unnamed/part_005                                *)
(*   ProofGenerator     src/lib/sdk/ProofGenerator.ts                       *)
(*   BlockchainAdapter  src/lib/sdk/BlockchainAdapter.ts                    *)
(*   CreditScoreSDK     src/unnamed/part_003                                *)
(*   lib/constants      src/unnamed/part_006                                *)
(*                                                                         *)
(* Two specifications share the variables:                                 *)
(*                                                                         *)
(*   SpecScore  a caller of ScoringEngine.calculateScore over a sample of   *)
(*              metrics records that covers every breakpoint of the bonus   *)
(*              functions and of validateMetrics;                           *)
(*   Spec       one CreditScoreSDK instance with its DataAggregator,        *)
(*              ProofGenerator and BlockchainAdapter, a caller that uses    *)
(*              issueCreditFlow and the individual steps, and the ledger    *)
(*              that answers the RPC calls.                                 *)
(*                                                                         *)
(* An action is the code that runs between two awaits that wait for the     *)
(* network or a timer.  One pipeline call is in flight at a time; init can   *)
(* be called at any moment, also while a call is suspended.                 *)
(*                                                                         *)
(* All metric values are integers (WalletMetrics counts and percentages),   *)
(* so Math.round, Math.floor, Math.min and Math.max are exact here.         *)
(* Time is counted in units of TX_POLLING.INTERVAL (500 ms).  Spec does not  *)
(* advance the clock: a session of MaxCalls calls is short against          *)
(* METRICS_TTL, and the pipeline carries timestamps without comparing them. *)
(***************************************************************************)
EXTENDS Integers, Sequences, FiniteSets, TLC

VARIABLES
    \* ---- a caller of ScoringEngine (SpecScore)
    scoreMetrics,   \* the WalletMetrics record the caller passes to ScoringEngine
    scoreResult,    \* what calculateScore returned for scoreMetrics, or NoAssessment
    scorePrev,      \* the assessment the caller got from its previous call, or NoAssessment
    \* ---- the environment
    now,            \* Date.now()
    mockData,       \* FEATURES.ENABLE_MOCK_DATA (NODE_ENV === 'development')
    \* ---- CreditScoreSDK and its components (Spec)
    userAddress,    \* CreditScoreSDK.userAddress, NoAddress while undefined
    cache,          \* DataAggregator.cache: address -> WalletMetrics or NoMetrics
    pc,             \* where the call in flight is suspended, "idle" if none is
    call,           \* the locals of the call in flight
    held,           \* what the individual steps returned to the caller so far
    broadcasts,     \* every transaction POSTed to /transaction/broadcast, in order
    polls,          \* queryTransaction calls of the current / last waitForConfirmation
    pollSeen,       \* the answers those calls got
    waitResult,     \* how the last waitForConfirmation ended
    outcome,        \* how the last SDK call ended
    calls           \* pipeline calls started so far

scoreVars == <<scoreMetrics, scoreResult, scorePrev>>
envVars == <<now, mockData>>
sdkVars == <<userAddress, cache, pc, call, held, broadcasts, polls, pollSeen,
             waitResult, outcome, calls>>
vars == <<scoreVars, envVars, sdkVars>>

\* ------------------------------------------------------------------------
\* lib/constants
\* ------------------------------------------------------------------------
BASE_SCORE == 300
MAX_SCORE == 850

TRANSACTION_COUNT == [threshold |-> 10, pointsPer |-> 5, maxPoints |-> 100]
WALLET_AGE == [threshold |-> 3, pointsPerMonth |-> 10, maxPoints |-> 100]
DEFI_SCORE == [threshold |-> 20, pointsPer |-> 3, maxPoints |-> 100]
REPAYMENT_RATE == [threshold |-> 75, pointsPer |-> 2, maxPoints |-> 150]

RISK_LOW_MIN == 750
RISK_MEDIUM_MIN == 500

\* ------------------------------------------------------------------------
\* JavaScript helpers
\* ------------------------------------------------------------------------
Min(a, b) == IF a < b THEN a ELSE b
Max(a, b) == IF a > b THEN a ELSE b

\* Strings the code inspects character by character are sequences of
\* one-character strings.
ALEO1 == <<"a", "l", "e", "o", "1">>

\* String.prototype.startsWith
startsWith(s, prefix) ==
    /\ Len(s) >= Len(prefix)
    /\ SubSeq(s, 1, Len(prefix)) = prefix

\* ------------------------------------------------------------------------
\* ScoringEngine
\* ------------------------------------------------------------------------
NoAssessment == [none |-> "assessment"]

\* Mutant: the threshold guard is dropped, so a count below it earns a
\* negative bonus.
calculateTransactionBonus_noThreshold(count) ==
    Min((count - TRANSACTION_COUNT.threshold) * TRANSACTION_COUNT.pointsPer,
        TRANSACTION_COUNT.maxPoints)

calculateTransactionBonus(count) ==
    IF count < TRANSACTION_COUNT.threshold THEN 0
    ELSE Min((count - TRANSACTION_COUNT.threshold) * TRANSACTION_COUNT.pointsPer,
             TRANSACTION_COUNT.maxPoints)

\* Mutant: the age bonus is paid on the excess over the threshold, like the
\* other three.
calculateAgeBonus_excess(months) ==
    IF months < WALLET_AGE.threshold THEN 0
    ELSE Min((months - WALLET_AGE.threshold) * WALLET_AGE.pointsPerMonth,
             WALLET_AGE.maxPoints)

calculateAgeBonus(months) ==
    IF months < WALLET_AGE.threshold THEN 0
    ELSE Min(months * WALLET_AGE.pointsPerMonth, WALLET_AGE.maxPoints)

\* Mutant: the threshold comparison is inverted.
calculateDeFiBonus_inverted(score) ==
    IF score > DEFI_SCORE.threshold THEN 0
    ELSE Min((DEFI_SCORE.threshold - score) * DEFI_SCORE.pointsPer,
             DEFI_SCORE.maxPoints)

calculateDeFiBonus(score) ==
    IF score < DEFI_SCORE.threshold THEN 0
    ELSE Min((score - DEFI_SCORE.threshold) * DEFI_SCORE.pointsPer,
             DEFI_SCORE.maxPoints)

\* Mutant: the points are counted from a rate of 0 instead of the threshold.
calculateRepaymentBonus_fromZero(rate) ==
    IF rate < REPAYMENT_RATE.threshold THEN 0
    ELSE Min(rate * REPAYMENT_RATE.pointsPer, REPAYMENT_RATE.maxPoints)

calculateRepaymentBonus(rate) ==
    IF rate < REPAYMENT_RATE.threshold THEN 0
    ELSE Min((rate - REPAYMENT_RATE.threshold) * REPAYMENT_RATE.pointsPer,
             REPAYMENT_RATE.maxPoints)

\* Mutant: strict comparisons, so a score on a breakpoint falls one tier.
getRiskLevel_strict(score) ==
    IF score > RISK_LOW_MIN THEN "low"
    ELSE IF score > RISK_MEDIUM_MIN THEN "medium"
    ELSE "high"

getRiskLevel(score) ==
    IF score >= RISK_LOW_MIN THEN "low"
    ELSE IF score >= RISK_MEDIUM_MIN THEN "medium"
    ELSE "high"

\* calculateScore never calls validateMetrics: it scores whatever it is given.
calculateScore(metrics, t) ==
    LET txBonus == calculateTransactionBonus(metrics.transactionCount)
        ageBonus == calculateAgeBonus(metrics.walletAgeMonths)
        defiBonus == calculateDeFiBonus(metrics.defiScore)
        repaymentBonus == calculateRepaymentBonus(metrics.repaymentRate)
        totalBonus == txBonus + ageBonus + defiBonus + repaymentBonus
        finalScore == Min(MAX_SCORE, BASE_SCORE + totalBonus)
    IN  [address |-> metrics.address,
         metrics |-> metrics,
         baseScore |-> BASE_SCORE,
         bonusPoints |-> totalBonus,
         finalScore |-> finalScore,
         riskLevel |-> getRiskLevel(finalScore),
         timestamp |-> t]

\* validateMetrics: "ok" when it returns, otherwise the message of the Error
\* it throws (the first failing check wins).
validateMetrics(metrics) ==
    IF metrics.address = <<>> \/ ~startsWith(metrics.address, ALEO1)
        THEN "Invalid Aleo address format"
    ELSE IF metrics.transactionCount < 0
        THEN "Transaction count cannot be negative"
    ELSE IF metrics.walletAgeMonths < 0
        THEN "Wallet age cannot be negative"
    ELSE IF metrics.defiScore < 0 \/ metrics.defiScore > 100
        THEN "DeFi score must be between 0 and 100"
    ELSE IF metrics.repaymentRate < 0 \/ metrics.repaymentRate > 100
        THEN "Repayment rate must be between 0 and 100"
    ELSE IF metrics.tokenBalance < 0
        THEN "Token balance cannot be negative"
    ELSE "ok"

\* Mutant: a breakdown with an age bonus of its own, without the cap.
getScoreBreakdown_ownAgeBonus(assessment) ==
    [base |-> BASE_SCORE,
     bonuses |->
        [transactions |-> calculateTransactionBonus(assessment.metrics.transactionCount),
         walletAge |-> IF assessment.metrics.walletAgeMonths < WALLET_AGE.threshold THEN 0
                       ELSE assessment.metrics.walletAgeMonths * WALLET_AGE.pointsPerMonth,
         defiActivity |-> calculateDeFiBonus(assessment.metrics.defiScore),
         repaymentRate |-> calculateRepaymentBonus(assessment.metrics.repaymentRate)],
     total |-> assessment.finalScore,
     maxPossible |-> MAX_SCORE]

getScoreBreakdown(assessment) ==
    [base |-> BASE_SCORE,
     bonuses |->
        [transactions |-> calculateTransactionBonus(assessment.metrics.transactionCount),
         walletAge |-> calculateAgeBonus(assessment.metrics.walletAgeMonths),
         defiActivity |-> calculateDeFiBonus(assessment.metrics.defiScore),
         repaymentRate |-> calculateRepaymentBonus(assessment.metrics.repaymentRate)],
     total |-> assessment.finalScore,
     maxPossible |-> MAX_SCORE]

\* ------------------------------------------------------------------------
\* lib/constants: times, in units of 500 ms
\* ------------------------------------------------------------------------
MAX_ATTEMPTS == 20
METRICS_TTL == 7200
MAX_CACHE_SIZE == 100
\* 1000 * 60 * 60 * 24 * 30 ms
MONTH == 5184000

\* Date.now() when the model starts: late enough for a wallet first seen
\* three years before.
Epoch == 40 * MONTH

\* ------------------------------------------------------------------------
\* Values
\* ------------------------------------------------------------------------
\* this.userAddress === undefined
NoAddress == <<"undefined">>
\* the empty string
EmptyString == <<>>
NoMetrics == [none |-> "metrics"]
NoProof == [none |-> "proof"]
NoCall == [none |-> "call"]
NoRecord == [none |-> "creditRecord"]
\* a ky request that throws: network error, timeout, non-2xx status
Fail == [failed |-> "request"]

\* Errors, by class: name, code (SDKError and its subclasses) and message.
SDKError(message, code) == [name |-> "SDKError", code |-> code, message |-> message]
RPCError(message) == [name |-> "RPCError", code |-> "RPC_ERROR", message |-> message]
ProofGenerationError(message) ==
    [name |-> "ProofGenerationError", code |-> "PROOF_GENERATION_ERROR", message |-> message]
TransactionError(message) ==
    [name |-> "TransactionError", code |-> "TRANSACTION_ERROR", message |-> message]
\* a plain Error has no code
PlainError(message) == [name |-> "Error", code |-> "", message |-> message]

\* error instanceof SDKError
instanceofSDKError(error) ==
    error.name \in {"SDKError", "RPCError", "ProofGenerationError", "TransactionError"}

Returned(value) == [kind |-> "returned", value |-> value]
Thrown(error) == [kind |-> "thrown", error |-> error]
NoOutcome == [kind |-> "none"]

\* ------------------------------------------------------------------------
\* DataAggregator
\* ------------------------------------------------------------------------
\* String.prototype.charCodeAt for the characters the model's addresses use.
charCode(c) ==
    CASE c = "1" -> 49
      [] c = "a" -> 97
      [] c = "b" -> 98
      [] c = "d" -> 100
      [] c = "e" -> 101
      [] c = "i" -> 105
      [] c = "l" -> 108
      [] c = "n" -> 110
      [] c = "o" -> 111
      [] c = "q" -> 113
      [] c = "t" -> 116
      [] c = "v" -> 118

\* hashAddress keeps a 32-bit integer: (hash << 5) - hash + char, then
\* hash & hash.  That is 31 * hash + char modulo 2^32, computed here on the
\* two 16-bit halves <<hi, lo>> of the unsigned value.
RECURSIVE hashHalves(_, _, _)
hashHalves(str, i, h) ==
    IF i > Len(str) THEN h
    ELSE LET lo == h[2] * 31 + charCode(str[i])
             hi == h[1] * 31 + (lo \div 65536)
         IN  hashHalves(str, i + 1, <<hi % 65536, lo % 65536>>)

\* Math.abs of the signed 32-bit value.
hashAddress(str) ==
    LET h == hashHalves(str, 1, <<0, 0>>)
        signed == IF h[1] >= 32768 THEN (h[1] - 65536) * 65536 + h[2]
                  ELSE h[1] * 65536 + h[2]
    IN  IF signed < 0 THEN 0 - signed ELSE signed

getMockTransactionCount(address) == hashAddress(address) % 100
getMockWalletAge(address) == (hashAddress(address) % 36) + 1
getMockDeFiScore(address) == hashAddress(address) % 101
getMockRepaymentRate(address) == (hashAddress(address) % 50) + 50
getMockBalance(address) == (hashAddress(address) % 100000) + 1000

\* lastTransactionDate: Date.now() - hash % (30 days in ms).  The hash is
\* below 2^31 < 30 days in ms, so this is Date.now() - hash ms.
getMockMetrics(address, t) ==
    [address |-> address,
     transactionCount |-> getMockTransactionCount(address),
     walletAgeMonths |-> getMockWalletAge(address),
     defiScore |-> getMockDeFiScore(address),
     repaymentRate |-> getMockRepaymentRate(address),
     tokenBalance |-> getMockBalance(address),
     lastTransactionDate |-> t - (hashAddress(address) \div 500)]

\* The five queries.  resp is the JSON body of the answer, or Fail; a field
\* that is missing from the body reads as 0 here (x || 0).
queryTransactionCount(address, resp) ==
    IF resp = Fail THEN getMockTransactionCount(address)
    ELSE resp.count

queryWalletAgeMonths(address, resp, t) ==
    IF resp = Fail THEN getMockWalletAge(address)
    ELSE IF resp.firstSeen = 0 THEN 0
    ELSE Max(0, (t - resp.firstSeen) \div MONTH)

queryDeFiScore_noFallback(address, resp) ==
    IF resp = Fail THEN 0
    ELSE Min(100, Max(0, resp.score))

queryDeFiScore(address, resp) ==
    IF resp = Fail THEN getMockDeFiScore(address)
    ELSE Min(100, Max(0, resp.score))

queryRepaymentRate(address, resp) ==
    IF resp = Fail THEN getMockRepaymentRate(address)
    ELSE Min(100, Max(0, resp.repaymentRate))

queryTokenBalance(address, resp) ==
    IF resp = Fail THEN getMockBalance(address)
    ELSE Max(0, resp.balance)

\* The record fetchWalletMetrics builds once Promise.all has joined the five
\* queries; answers holds the five answers.
joinMetrics(address, answers, t) ==
    [address |-> address,
     transactionCount |-> queryTransactionCount(address, answers.transactions),
     walletAgeMonths |-> queryWalletAgeMonths(address, answers.info, t),
     defiScore |-> queryDeFiScore(address, answers.defi),
     repaymentRate |-> queryRepaymentRate(address, answers.lending),
     tokenBalance |-> queryTokenBalance(address, answers.balance),
     lastTransactionDate |-> t]

\* LRUCache with ttl and updateAgeOnGet: an entry is [value, start]; it is
\* stale once now - start > ttl.  The model has fewer addresses than
\* MAX_CACHE_SIZE, so set never evicts.
cacheFresh(c, address, t) ==
    /\ address \in DOMAIN c
    /\ c[address] # NoMetrics
    /\ t - c[address].start <= METRICS_TTL

\* this.cache.get(address): the value, or NoMetrics for undefined
cacheGet(c, address, t) ==
    IF cacheFresh(c, address, t) THEN c[address].value ELSE NoMetrics

\* the cache after this.cache.get(address): a hit renews the entry's age, a
\* stale entry is dropped
cacheAfterGet(c, address, t) ==
    IF address \notin DOMAIN c THEN c
    ELSE IF cacheFresh(c, address, t) THEN [c EXCEPT ![address].start = t]
    ELSE [c EXCEPT ![address] = NoMetrics]

\* this.cache.set(address, metrics)
cacheSet(c, address, metrics, t) ==
    [c EXCEPT ![address] = [value |-> metrics, start |-> t]]

\* ------------------------------------------------------------------------
\* ProofGenerator
\* ------------------------------------------------------------------------
\* isValidAddress(address): the prefix and the length
isValidAddress(address) ==
    startsWith(address, ALEO1) /\ Len(address) = 63

\* a property that is missing from an object
Undefined == <<"undefined">>

\* Number.prototype.toString: the decimal string of n
toString(n) == [decimal |-> n]

\* generateRandomHex: 32 random bytes in hex.  One draw r of the random
\* source stands for the eight values of one runGroth16Prover call; k is the
\* position of the value in it.
generateRandomHex(r, k) == <<r, k>>

runGroth16Prover_fixed(r) ==
    [a |-> <<generateRandomHex(0, 1), generateRandomHex(0, 2)>>,
     b |-> << <<generateRandomHex(0, 3), generateRandomHex(0, 4)>>,
              <<generateRandomHex(0, 5), generateRandomHex(0, 6)>> >>,
     c |-> <<generateRandomHex(0, 7), generateRandomHex(0, 8)>>]

\* runGroth16Prover ignores the witness: the components are random.
runGroth16Prover(r) ==
    [a |-> <<generateRandomHex(r, 1), generateRandomHex(r, 2)>>,
     b |-> << <<generateRandomHex(r, 3), generateRandomHex(r, 4)>>,
              <<generateRandomHex(r, 5), generateRandomHex(r, 6)>> >>,
     c |-> <<generateRandomHex(r, 7), generateRandomHex(r, 8)>>]

\* hashProof: the SHA-256 hex digest of JSON.stringify(proof), 64 characters
\* that are a function of the three components (taken as collision free).
hashProof(proof) == <<"sha256", proof.a, proof.b, proof.c>>

createPublicInputs(assessment) ==
    <<toString(assessment.finalScore), toString(assessment.timestamp), assessment.address>>

\* generateProof, given the draw of the random source
generateProof(assessment, r) ==
    LET proof == runGroth16Prover(r)
    IN  [proofHash |-> hashProof(proof),
         publicInputs |-> createPublicInputs(assessment),
         proof |-> proof]

\* proof.proof is missing
NoComponents == [none |-> "components"]

verifyProofLocally_noInputs(proof) ==
    IF proof.proofHash = Undefined \/ proof.proofHash = EmptyString THEN FALSE
    ELSE IF \/ proof.proof = NoComponents
            \/ proof.proof.a = Undefined
            \/ proof.proof.b = Undefined
            \/ proof.proof.c = Undefined THEN FALSE
    ELSE TRUE

\* verifyProofLocally never throws: any error is caught and gives false.
verifyProofLocally(proof) ==
    IF proof.proofHash = Undefined \/ proof.proofHash = EmptyString THEN FALSE
    ELSE IF \/ proof.proof = NoComponents
            \/ proof.proof.a = Undefined
            \/ proof.proof.b = Undefined
            \/ proof.proof.c = Undefined THEN FALSE
    ELSE IF proof.publicInputs = Undefined \/ proof.publicInputs = <<>> THEN FALSE
    ELSE TRUE

\* ------------------------------------------------------------------------
\* BlockchainAdapter
\* ------------------------------------------------------------------------
contractAddress == "credit_score.aleo"

\* mockSign: `sig_${message.slice(0, 16)}`; the private key is not used.
mockSign(message, privateKey) == [sig |-> message, chars |-> 16]

buildTransaction(proof, address, privateKey) ==
    [program |-> contractAddress,
     function |-> "verify_and_issue",
     inputs |-> <<proof.proofHash, "300">>,
     caller |-> address,
     signature |-> mockSign(proof.proofHash, privateKey),
     fee |-> "1000000"]

\* generateMockTxId: 'at1' and 32 random bytes in hex
generateMockTxId(r) == <<"at1", "mock", r>>

\* queryTransaction: the answer of GET /transaction/:id, or, when the request
\* throws, a made-up confirmed transaction with a random block height.
queryTransaction(txId, resp, randomHeight, t) ==
    IF resp = Fail
    THEN [id |-> txId, status |-> "confirmed", blockHeight |-> randomHeight, timestamp |-> t]
    ELSE resp

\* waitForConfirmation with the loop condition attempts <= maxAttempts
waitForConfirmationStep_offByOne(attempts, tx) ==
    IF tx.status = "confirmed" THEN [kind |-> "return", tx |-> tx]
    ELSE IF tx.status = "failed" /\ attempts >= MAX_ATTEMPTS - 1
        THEN [kind |-> "throw", error |-> TransactionError("Transaction confirmation timeout")]
    ELSE IF attempts + 1 <= MAX_ATTEMPTS
        THEN [kind |-> "continue", attempts |-> attempts + 1]
    ELSE [kind |-> "throw", error |-> TransactionError("Transaction confirmation timeout")]

\* One iteration of the loop of waitForConfirmation, tx being what
\* queryTransaction returned: the function returns tx, throws, or sleeps and
\* runs the next iteration with attempts + 1; the loop condition of that
\* iteration is evaluated here.
waitForConfirmationStep(attempts, tx) ==
    IF tx.status = "confirmed" THEN [kind |-> "return", tx |-> tx]
    ELSE IF tx.status = "failed" /\ attempts >= MAX_ATTEMPTS - 1
        \* 'Transaction failed on-chain' is thrown inside the try and caught
        THEN [kind |-> "throw", error |-> TransactionError("Transaction confirmation timeout")]
    ELSE IF attempts + 1 < MAX_ATTEMPTS
        THEN [kind |-> "continue", attempts |-> attempts + 1]
    ELSE [kind |-> "throw", error |-> TransactionError("Transaction confirmation timeout")]

\* extractCreditRecord without the base of 300 in the score
extractCreditRecord_noBase(transaction, address, random, t) ==
    [owner |-> address,
     score |-> random,
     threshold |-> 300,
     issuedBlock |-> transaction.blockHeight,
     issuedAt |-> IF transaction.timestamp = 0 THEN t ELSE transaction.timestamp]

\* extractCreditRecord; random is Math.floor(Math.random() * 550).  A block
\* height or timestamp that is missing from the transaction reads as 0.
extractCreditRecord(transaction, address, random, t) ==
    [owner |-> address,
     score |-> 300 + random,
     threshold |-> 300,
     issuedBlock |-> transaction.blockHeight,
     issuedAt |-> IF transaction.timestamp = 0 THEN t ELSE transaction.timestamp]

\* result.error === undefined
NoErrorMessage == "<undefined>"

\* What submitProof returns
submitSuccess(txId, creditRecord) ==
    [success |-> TRUE, transactionId |-> txId, creditRecord |-> creditRecord,
     error |-> NoErrorMessage]

\* ... and what its catch block returns: the message of the error only
submitFailure(error) ==
    [success |-> FALSE, transactionId |-> EmptyString, creditRecord |-> NoRecord,
     error |-> error.message]

\* ------------------------------------------------------------------------
\* Spec: CreditScoreSDK, its caller and the ledger
\* ------------------------------------------------------------------------
\* Bounds of the model
MaxCalls == 4       \* pipeline calls the caller starts
MaxBroadcasts == 2  \* of them, calls that reach the ledger
MaxDraws == 2       \* distinct values the random source yields

A1 == ALEO1 \o <<"a">>
BadAddress == <<"b", "a", "d">>
\* addresses init accepts
SdkAddresses == {A1}
\* addresses the caller passes to init
InitArguments == SdkAddresses \cup {BadAddress}

PrivateKey == "APrivateKey1test"

RandomDraws == 1..MaxDraws
\* Math.floor(Math.random() * 550) and Math.floor(Math.random() * 1000000):
\* the ends of the ranges
RandomScores == {0, 549}
RandomHeights == {0, 999999}

\* What the ledger answers to the five queries of one fetch: four answers
\* and one failed request, and the same with a transaction count that comes
\* back negative.
TypicalAnswers ==
    [transactions |-> [count |-> 20],
     info |-> [firstSeen |-> Epoch - 6 * MONTH],
     defi |-> Fail,
     lending |-> [repaymentRate |-> 80],
     balance |-> [balance |-> 5000]]

QueryAnswers ==
    {TypicalAnswers, [TypicalAnswers EXCEPT !.transactions = [count |-> -1]]}

\* Proofs a caller can hand to issueCredit without having them from
\* generateProof (their components are no draw of the random source): each
\* fails one check of verifyProofLocally.
CraftedProofs ==
    LET good == generateProof(calculateScore(joinMetrics(A1, TypicalAnswers, Epoch), Epoch), 0)
    IN  {[good EXCEPT !.proofHash = EmptyString],
         [good EXCEPT !.proof.a = Undefined],
         [good EXCEPT !.publicInputs = <<>>]}

\* The state after new CreditScoreSDK()
SdkConstructed ==
    /\ userAddress = NoAddress
    /\ cache = [a \in SdkAddresses |-> NoMetrics]
    /\ pc = "idle"
    /\ call = NoCall
    /\ held = [metrics |-> NoMetrics, assessment |-> NoAssessment, proof |-> NoProof]
    /\ broadcasts = <<>>
    /\ polls = 0
    /\ pollSeen = {}
    /\ waitResult = NoOutcome
    /\ outcome = NoOutcome
    /\ calls = 0

Init ==
    /\ scoreMetrics = NoMetrics
    /\ scoreResult = NoAssessment
    /\ scorePrev = NoAssessment
    /\ now = Epoch
    /\ mockData \in BOOLEAN
    /\ SdkConstructed

\* The caller starts a pipeline call: what the previous one left is dropped.
Begins ==
    /\ pc = "idle"
    /\ calls < MaxCalls
    /\ calls' = calls + 1
    /\ polls' = 0
    /\ pollSeen' = {}
    /\ waitResult' = NoOutcome

\* A call of api ends: it returned value / it threw error.
Ends(api, how) ==
    /\ pc' = "idle"
    /\ call' = NoCall
    /\ outcome' = [api |-> api, kind |-> how.kind, result |-> how]

\* The catch block of issueCreditFlow: an SDKError is thrown on as it is,
\* anything else is wrapped.
flowError(error) ==
    IF instanceofSDKError(error) THEN error
    ELSE SDKError("Credit issuance flow failed", "FLOW_ERROR")

\* What the caller of api sees when error is thrown inside it.
Throws(api, error) ==
    Ends(api, Thrown(IF api = "issueCreditFlow" THEN flowError(error) ELSE error))

NotInitialized == SDKError("SDK not initialized. Call init() first.", "NOT_INITIALIZED")

\* init(userAddress); the outcome of the health check changes nothing.
SdkInit(address) ==
    /\ startsWith(address, ALEO1)
    /\ userAddress' = address
    /\ UNCHANGED <<cache, pc, call, held, broadcasts, polls, pollSeen, waitResult,
                   outcome, calls>>

\* init with an address it rejects: SDKError INVALID_ADDRESS.  It changes
\* nothing, so it is taken between the caller's other calls.
SdkInitRejected(address) ==
    /\ ~startsWith(address, ALEO1)
    /\ pc = "idle"
    /\ outcome' = [api |-> "init", kind |-> "thrown",
                   result |-> Thrown(SDKError("Invalid Aleo address format", "INVALID_ADDRESS"))]
    /\ UNCHANGED <<userAddress, cache, pc, call, held, broadcasts, polls, pollSeen,
                   waitResult, calls>>

\* CreditScoreSDK.fetchWalletMetrics up to the first await, called by the
\* caller (api = "fetchWalletMetrics") or as step 1 of issueCreditFlow:
\* ensureInitialized, then DataAggregator.fetchWalletMetrics up to the await
\* of Promise.all, or to its return on a cache hit or with mock data.
SdkFetchStart(api) ==
    /\ Begins
    /\ api = "issueCreditFlow" => Len(broadcasts) < MaxBroadcasts
    /\ IF userAddress = NoAddress
       THEN /\ Throws(api, NotInitialized)
            /\ UNCHANGED cache
       ELSE IF userAddress = EmptyString \/ ~startsWith(userAddress, ALEO1)
       THEN /\ Throws(api, RPCError("Invalid Aleo address format"))
            /\ UNCHANGED cache
       ELSE LET cached == cacheGet(cache, userAddress, now)
            IN  /\ cache' = cacheAfterGet(cache, userAddress, now)
                /\ pc' = "fetching"
                /\ call' = [api |-> api,
                            address |-> userAddress,
                            resolved |-> IF cached # NoMetrics THEN cached
                                         ELSE IF mockData THEN getMockMetrics(userAddress, now)
                                         ELSE NoMetrics]
                /\ outcome' = NoOutcome
    /\ UNCHANGED <<userAddress, held, broadcasts>>

\* generateProof up to the await of the prover
ProofStart(api, assessment) ==
    /\ pc' = "proving"
    /\ call' = [api |-> api, assessment |-> assessment]
    /\ outcome' = NoOutcome

\* DataAggregator.fetchWalletMetrics returns (answers are the five answers
\* the queries got, used on a cache miss), CreditScoreSDK.fetchWalletMetrics
\* validates and returns; issueCreditFlow goes on with calculateScore and
\* generateProof.
SdkFetchComplete(answers) ==
    /\ pc = "fetching"
    /\ LET missed == call.resolved = NoMetrics
           metrics == IF missed THEN joinMetrics(call.address, answers, now)
                      ELSE call.resolved
           valid == validateMetrics(metrics)
       IN  /\ cache' = IF missed THEN cacheSet(cache, call.address, metrics, now) ELSE cache
           /\ IF valid # "ok"
              THEN /\ Throws(call.api, PlainError(valid))
                   /\ UNCHANGED held
              ELSE IF call.api = "fetchWalletMetrics"
              THEN /\ Ends(call.api, Returned(metrics))
                   /\ held' = [held EXCEPT !.metrics = metrics]
              ELSE /\ ProofStart(call.api, calculateScore(metrics, now))
                   /\ UNCHANGED held
    /\ UNCHANGED <<userAddress, broadcasts, polls, pollSeen, waitResult, calls>>

\* calculateScore(metrics) with the metrics the caller got from
\* fetchWalletMetrics
SdkCalculateScore ==
    /\ pc = "idle"
    /\ held.metrics # NoMetrics
    /\ held' = [held EXCEPT !.assessment = calculateScore(held.metrics, now)]
    /\ outcome' = [api |-> "calculateScore", kind |-> "returned",
                   result |-> Returned(calculateScore(held.metrics, now))]
    /\ UNCHANGED <<userAddress, cache, pc, call, broadcasts, polls, pollSeen,
                   waitResult, calls>>

\* generateProof(assessment) with the assessment the caller got from
\* calculateScore
SdkGenerateStart ==
    /\ Begins
    /\ held.assessment # NoAssessment
    /\ ProofStart("generateProof", held.assessment)
    /\ UNCHANGED <<userAddress, cache, held, broadcasts>>

\* issueCredit up to the await of the broadcast: ensureInitialized, then
\* submitProof with the address the slot holds now, buildTransaction and the
\* POST.
SubmitStart_noEnsure(api, proof) ==
    /\ pc' = "broadcasting"
    /\ call' = [api |-> api,
                proof |-> proof,
                address |-> userAddress,
                privateKey |-> PrivateKey,
                transaction |-> buildTransaction(proof, userAddress, PrivateKey)]
    /\ outcome' = NoOutcome

SubmitStart(api, proof) ==
    IF userAddress = NoAddress
    THEN Throws(api, NotInitialized)
    ELSE /\ pc' = "broadcasting"
         /\ call' = [api |-> api,
                     proof |-> proof,
                     address |-> userAddress,
                     privateKey |-> PrivateKey,
                     transaction |-> buildTransaction(proof, userAddress, PrivateKey)]
         /\ outcome' = NoOutcome

\* The prover is done (r is what the random source yields): generateProof
\* builds the proof, CreditScoreSDK.generateProof verifies it locally and
\* returns it; issueCreditFlow goes on with issueCredit.
SdkProofComplete(r) ==
    /\ pc = "proving"
    /\ LET proof == generateProof(call.assessment, r)
       IN  IF ~verifyProofLocally(proof)
           THEN /\ Throws(call.api, SDKError("Proof verification failed", "INVALID_PROOF"))
                /\ UNCHANGED held
           ELSE IF call.api = "generateProof"
           THEN /\ Ends(call.api, Returned(proof))
                /\ held' = [held EXCEPT !.proof = proof]
           ELSE /\ SubmitStart(call.api, proof)
                /\ UNCHANGED held
    /\ UNCHANGED <<userAddress, cache, broadcasts, polls, pollSeen, waitResult, calls>>

\* issueCredit(proof, privateKey) called by the caller, with the proof it got
\* from generateProof or with one it made up
SdkIssueStart(proof) ==
    /\ Begins
    /\ Len(broadcasts) < MaxBroadcasts
    /\ SubmitStart("issueCredit", proof)
    /\ UNCHANGED <<userAddress, cache, held, broadcasts>>

\* The ledger's record of a transaction it accepted moves from pending to
\* confirmed or failed and then stays.
LedgerNext(status) ==
    IF status = "pending" THEN {"pending", "confirmed", "failed"} ELSE {status}

\* The body of the answer to GET /transaction/:id
LedgerAnswer(txId, status, t) ==
    [id |-> txId,
     status |-> status,
     blockHeight |-> IF status = "confirmed" THEN 100 ELSE 0,
     timestamp |-> t]

\* broadcastTransaction returns: the ledger accepted the transaction and
\* answered with its id, or the request failed and the id is made up (r is
\* what the random source yields).  submitProof goes on into
\* waitForConfirmation.
SdkBroadcastComplete(accepted, r) ==
    /\ pc = "broadcasting"
    /\ broadcasts' = Append(broadcasts,
                            [transaction |-> call.transaction,
                             proof |-> call.proof,
                             privateKey |-> call.privateKey,
                             accepted |-> accepted,
                             status |-> IF accepted THEN "pending" ELSE "unknown"])
    /\ pc' = "polling"
    /\ call' = [api |-> call.api,
                proof |-> call.proof,
                address |-> call.address,
                privateKey |-> call.privateKey,
                entry |-> Len(broadcasts) + 1,
                txId |-> IF accepted THEN <<"at1", "ledger", Len(broadcasts) + 1>>
                         ELSE generateMockTxId(r),
                attempts |-> 0]
    /\ UNCHANGED <<userAddress, cache, held, polls, pollSeen, waitResult, outcome, calls>>

\* One iteration of the loop of waitForConfirmation: the query is answered
\* with the transaction in the given status, or fails.  When the loop ends,
\* submitProof returns its result, and issueCredit and issueCreditFlow return
\* it to the caller.
SdkPoll(status, randomHeight, random) ==
    /\ pc = "polling"
    /\ polls <= MAX_ATTEMPTS
    /\ LET entry == broadcasts[call.entry]
           resp == IF status = "error" THEN Fail ELSE LedgerAnswer(call.txId, status, now)
           tx == queryTransaction(call.txId, resp, randomHeight, now)
           step == waitForConfirmationStep(call.attempts, tx)
       IN  /\ IF entry.accepted THEN status \in LedgerNext(entry.status) \cup {"error"}
              ELSE status = "error"
           /\ broadcasts' = IF status = "error" THEN broadcasts
                            ELSE [broadcasts EXCEPT ![call.entry].status = status]
           /\ polls' = polls + 1
           /\ pollSeen' = pollSeen \cup {status}
           /\ CASE step.kind = "continue" ->
                    /\ call' = [call EXCEPT !.attempts = step.attempts]
                    /\ UNCHANGED <<pc, outcome, waitResult>>
                [] step.kind = "return" ->
                    /\ waitResult' = Returned(step.tx)
                    /\ Ends(call.api,
                            Returned(submitSuccess(call.txId,
                                extractCreditRecord(step.tx, call.address, random, now))))
                [] step.kind = "throw" ->
                    /\ waitResult' = Thrown(step.error)
                    /\ Ends(call.api, Returned(submitFailure(step.error)))
    /\ UNCHANGED <<userAddress, cache, held, calls>>

Next ==
    \/ /\ \E address \in InitArguments : SdkInit(address) \/ SdkInitRejected(address)
       /\ UNCHANGED <<scoreVars, envVars>>
    \/ /\ \E api \in {"fetchWalletMetrics", "issueCreditFlow"} : SdkFetchStart(api)
       /\ UNCHANGED <<scoreVars, envVars>>
    \/ /\ \E answers \in QueryAnswers : SdkFetchComplete(answers)
       /\ UNCHANGED <<scoreVars, envVars>>
    \/ /\ SdkCalculateScore
       /\ UNCHANGED <<scoreVars, envVars>>
    \/ /\ SdkGenerateStart
       /\ UNCHANGED <<scoreVars, envVars>>
    \/ /\ \E r \in RandomDraws : SdkProofComplete(r)
       /\ UNCHANGED <<scoreVars, envVars>>
    \/ /\ \E proof \in ({held.proof} \ {NoProof}) \cup CraftedProofs : SdkIssueStart(proof)
       /\ UNCHANGED <<scoreVars, envVars>>
    \/ /\ \E accepted \in BOOLEAN, r \in RandomDraws : SdkBroadcastComplete(accepted, r)
       /\ UNCHANGED <<scoreVars, envVars>>
    \/ /\ \E status \in {"pending", "confirmed", "failed", "error"},
             randomHeight \in RandomHeights, random \in RandomScores :
                SdkPoll(status, randomHeight, random)
       /\ UNCHANGED <<scoreVars, envVars>>

Spec == Init /\ [][Next]_vars

\* ------------------------------------------------------------------------
\* SpecSubmit: a caller of BlockchainAdapter.submitProof, and the ledger
\* ------------------------------------------------------------------------
MaxSubmits == 2     \* submitProof calls the caller makes

A2 == ALEO1 \o <<"b">>
\* the userAddress argument of submitProof
SubmitAddresses == {A1, A2}
\* the privateKey argument: a key, and the empty string
SubmitKeys == {PrivateKey, ""}
\* the proof argument: what generateProof returns for an assessment
SubmitProofs ==
    {generateProof(calculateScore(joinMetrics(A1, TypicalAnswers, Epoch), Epoch), r) :
        r \in RandomDraws}

SubmitInit ==
    /\ scoreMetrics = NoMetrics
    /\ scoreResult = NoAssessment
    /\ scorePrev = NoAssessment
    /\ now = Epoch
    /\ mockData = FALSE
    /\ SdkConstructed

\* submitProof(proof, userAddress, privateKey) up to the await of the
\* broadcast: buildTransaction and the POST
AdapterSubmitStart(proof, address, privateKey) ==
    /\ pc = "idle"
    /\ calls < MaxSubmits
    /\ calls' = calls + 1
    /\ polls' = 0
    /\ pollSeen' = {}
    /\ waitResult' = NoOutcome
    /\ outcome' = NoOutcome
    /\ pc' = "broadcasting"
    /\ call' = [api |-> "submitProof",
                proof |-> proof,
                address |-> address,
                privateKey |-> privateKey,
                transaction |-> buildTransaction(proof, address, privateKey)]
    /\ UNCHANGED <<userAddress, cache, held, broadcasts>>

SubmitNext ==
    \/ /\ \E proof \in SubmitProofs, address \in SubmitAddresses, privateKey \in SubmitKeys :
                AdapterSubmitStart(proof, address, privateKey)
       /\ UNCHANGED <<scoreVars, envVars>>
    \/ /\ \E accepted \in BOOLEAN, r \in RandomDraws : SdkBroadcastComplete(accepted, r)
       /\ UNCHANGED <<scoreVars, envVars>>
    \/ /\ \E status \in {"pending", "confirmed", "failed", "error"},
             randomHeight \in RandomHeights, random \in RandomScores :
                SdkPoll(status, randomHeight, random)
       /\ UNCHANGED <<scoreVars, envVars>>

SpecSubmit == SubmitInit /\ [][SubmitNext]_vars

\* ------------------------------------------------------------------------
\* SpecStore: callers of DataAggregator, the clock and the ledger
\* ------------------------------------------------------------------------
MaxStoreCalls == 3  \* fetchWalletMetrics, clearCache and clearAllCache calls
MaxQueried == 2     \* of the fetches, those that query the ledger
MaxPending == 2     \* fetches that await their queries at the same time
MaxTicks == 2       \* times the clock advances

\* The clock advances by two thirds of the cache's ttl: an entry is fresh
\* one step after it was set or read, and stale two steps after.
TickStep == (2 * METRICS_TTL) \div 3

\* the address argument of fetchWalletMetrics
StoreAddresses == {A1, A2, BadAddress}

\* What the ledger answers to the five queries of one fetch: each request
\* either fails or gets a body, in every combination.
QueryNames == {"transactions", "info", "defi", "lending", "balance"}

AnswersFailing(failed) ==
    [transactions |-> IF "transactions" \in failed THEN Fail ELSE [count |-> 20],
     info |-> IF "info" \in failed THEN Fail ELSE [firstSeen |-> Epoch - 6 * MONTH],
     defi |-> IF "defi" \in failed THEN Fail ELSE [score |-> 60],
     lending |-> IF "lending" \in failed THEN Fail ELSE [repaymentRate |-> 80],
     balance |-> IF "balance" \in failed THEN Fail ELSE [balance |-> 5000]]

StoreAnswers == {AnswersFailing(failed) : failed \in SUBSET QueryNames}

\* two of them: every request answered, and every request failed
CacheAnswers == {AnswersFailing({}), AnswersFailing(QueryNames)}

\* every request answered with a value outside the range of its field: a
\* negative count, a first transaction in the future, a score above 100, a
\* negative rate and a negative balance
WildAnswers ==
    {[transactions |-> [count |-> -1],
      info |-> [firstSeen |-> Epoch + 4 * MONTH],
      defi |-> [score |-> 150],
      lending |-> [repaymentRate |-> -5],
      balance |-> [balance |-> -1]]}

\* no query was made
NoAnswers == [none |-> "answers"]

\* The state after new DataAggregator(): an empty cache and no fetch in
\* flight.  call holds the fetches that await Promise.all, held the calls
\* that have ended, in the order they ended.
StoreInit ==
    /\ scoreMetrics = NoMetrics
    /\ scoreResult = NoAssessment
    /\ scorePrev = NoAssessment
    /\ now = Epoch
    /\ mockData \in BOOLEAN
    /\ userAddress = NoAddress
    /\ cache = [a \in StoreAddresses |-> NoMetrics]
    /\ pc = "idle"
    /\ call = [s \in 1..MaxPending |-> NoCall]
    /\ held = <<>>
    /\ broadcasts = <<>>
    /\ polls = 0
    /\ pollSeen = {}
    /\ waitResult = NoOutcome
    /\ outcome = NoOutcome
    /\ calls = 0

\* the fetches that have issued their queries
Queried ==
    {s \in DOMAIN call : call[s] # NoCall}
        \cup {i \in DOMAIN held : held[i].op = "fetchWalletMetrics" /\ held[i].answers # NoAnswers}

\* a fetchWalletMetrics call that has ended
FetchEnded(address, how, answers) ==
    [op |-> "fetchWalletMetrics", address |-> address, result |-> how,
     answers |-> answers, at |-> now]

\* DataAggregator.fetchWalletMetrics(address) up to its first await: the
\* address check, the cache lookup and the mock data switch.  It throws,
\* returns the cached or the mock metrics, or issues the five queries.
StoreFetchStart(address, s) ==
    /\ calls < MaxStoreCalls
    /\ calls' = calls + 1
    /\ IF address = EmptyString \/ ~startsWith(address, ALEO1)
       THEN /\ held' = Append(held, FetchEnded(address,
                           Thrown(RPCError("Invalid Aleo address format")), NoAnswers))
            /\ UNCHANGED <<cache, call>>
       ELSE LET cached == cacheGet(cache, address, now)
            IN  /\ cache' = cacheAfterGet(cache, address, now)
                /\ IF cached # NoMetrics
                   THEN /\ held' = Append(held, FetchEnded(address, Returned(cached),
                                                           NoAnswers))
                        /\ UNCHANGED call
                   ELSE IF mockData
                   THEN /\ held' = Append(held, FetchEnded(address,
                                       Returned(getMockMetrics(address, now)), NoAnswers))
                        /\ UNCHANGED call
                   ELSE /\ Cardinality(Queried) < MaxQueried
                        /\ call[s] = NoCall
                        /\ \A r \in 1..(s - 1) : call[r] # NoCall
                        /\ call' = [call EXCEPT ![s] = [api |-> "fetchWalletMetrics",
                                                        address |-> address]]
                        /\ UNCHANGED held
    /\ UNCHANGED <<userAddress, pc, broadcasts, polls, pollSeen, waitResult, outcome>>

\* Promise.all has joined the five queries of the fetch in s: the metrics
\* are built, cached and returned.  Every query catches its own error, so
\* the catch block of fetchWalletMetrics is never entered.
StoreFetchComplete(s, answers) ==
    /\ call[s] # NoCall
    /\ LET address == call[s].address
           metrics == joinMetrics(address, answers, now)
       IN  /\ cache' = cacheSet(cache, address, metrics, now)
           /\ held' = Append(held, FetchEnded(address, Returned(metrics), answers))
    /\ call' = [call EXCEPT ![s] = NoCall]
    /\ UNCHANGED <<userAddress, pc, broadcasts, polls, pollSeen, waitResult, outcome, calls>>

\* clearCache(address): this.cache.delete(address)
clearCache(address) ==
    /\ calls < MaxStoreCalls
    /\ calls' = calls + 1
    /\ cache' = [cache EXCEPT ![address] = NoMetrics]
    /\ held' = Append(held, [op |-> "clearCache", address |-> address, at |-> now])
    /\ UNCHANGED <<userAddress, pc, call, broadcasts, polls, pollSeen, waitResult, outcome>>

\* clearAllCache(): this.cache.clear()
clearAllCache ==
    /\ calls < MaxStoreCalls
    /\ calls' = calls + 1
    /\ cache' = [a \in DOMAIN cache |-> NoMetrics]
    /\ held' = Append(held, [op |-> "clearAllCache", at |-> now])
    /\ UNCHANGED <<userAddress, pc, call, broadcasts, polls, pollSeen, waitResult, outcome>>

\* Date.now() moves on.
StoreTick ==
    /\ now < Epoch + MaxTicks * TickStep
    /\ now' = now + TickStep
    /\ UNCHANGED <<scoreVars, mockData, sdkVars>>

StoreNext ==
    \/ /\ \E address \in StoreAddresses, s \in 1..MaxPending : StoreFetchStart(address, s)
       /\ UNCHANGED <<scoreVars, envVars>>
    \/ /\ \E s \in 1..MaxPending, answers \in CacheAnswers \cup WildAnswers :
                StoreFetchComplete(s, answers)
       /\ UNCHANGED <<scoreVars, envVars>>
    \/ /\ \E address \in StoreAddresses : clearCache(address)
       /\ UNCHANGED <<scoreVars, envVars>>
    \/ /\ clearAllCache
       /\ UNCHANGED <<scoreVars, envVars>>
    \/ StoreTick

SpecStore == StoreInit /\ [][StoreNext]_vars

\* ------------------------------------------------------------------------
\* SpecFetch: fetchWalletMetrics under every combination of answers
\* ------------------------------------------------------------------------
MaxFetches == 2     \* fetchWalletMetrics calls

FetchNext ==
    \/ /\ calls < MaxFetches
       /\ \E address \in StoreAddresses, s \in 1..MaxPending : StoreFetchStart(address, s)
       /\ UNCHANGED <<scoreVars, envVars>>
    \/ /\ \E s \in 1..MaxPending, answers \in StoreAnswers : StoreFetchComplete(s, answers)
       /\ UNCHANGED <<scoreVars, envVars>>
    \/ StoreTick

SpecFetch == StoreInit /\ [][FetchNext]_vars

\* ------------------------------------------------------------------------
\* SpecProve: a caller of ProofGenerator.generateProof
\* ------------------------------------------------------------------------
MaxProofs == 3      \* generateProof calls
MaxFresh == 4       \* values the random source has to draw from

\* The assessment argument: two wallets, each with every request answered
\* and with every request failed.
ProveAssessments ==
    {calculateScore(joinMetrics(address, answers, Epoch), Epoch) :
        address \in {A1, A2}, answers \in CacheAnswers}

\* The state after new ProofGenerator(); held is the sequence of the calls
\* that have returned.
ProveInit ==
    /\ scoreMetrics = NoMetrics
    /\ scoreResult = NoAssessment
    /\ scorePrev = NoAssessment
    /\ now = Epoch
    /\ mockData = FALSE
    /\ userAddress = NoAddress
    /\ cache = [a \in SdkAddresses |-> NoMetrics]
    /\ pc = "idle"
    /\ call = NoCall
    /\ held = <<>>
    /\ broadcasts = <<>>
    /\ polls = 0
    /\ pollSeen = {}
    /\ waitResult = NoOutcome
    /\ outcome = NoOutcome
    /\ calls = 0

\* the draws of the random source that earlier calls have used
DrawsUsed ==
    {held[i].draw : i \in {k \in DOMAIN held : held[k].op = "generateProof"}}

\* generateProof(assessment).  crypto.getRandomValues fills 32 bytes for
\* each component; r stands for the bytes of this call, which are taken to
\* differ from the bytes of every earlier call (256-bit values do not
\* repeat).  The witness, with its secret, is not read by the prover.
ProveGenerate(assessment, r) ==
    /\ calls < MaxProofs
    /\ r \notin DrawsUsed
    /\ calls' = calls + 1
    /\ held' = Append(held, [op |-> "generateProof",
                             assessment |-> assessment,
                             draw |-> r,
                             result |-> Returned(generateProof(assessment, r))])
    /\ UNCHANGED <<userAddress, cache, pc, call, broadcasts, polls, pollSeen, waitResult,
                   outcome>>

ProveNext ==
    /\ \E assessment \in ProveAssessments, r \in 1..MaxFresh : ProveGenerate(assessment, r)
    /\ UNCHANGED <<scoreVars, envVars>>

SpecProve == ProveInit /\ [][ProveNext]_vars

\* ------------------------------------------------------------------------
\* SpecVerify: a caller of generateProof and verifyProofLocally
\* ------------------------------------------------------------------------
\* What the caller does to a field of a proof it got before it hands the
\* proof to verifyProofLocally: nothing, set it to '' or [], or remove it.
Damages ==
    [proofHash : {"kept", "empty", "missing"},
     a : {"kept", "missing"},
     b : {"kept", "missing"},
     c : {"kept", "missing"},
     proof : {"kept", "missing"},
     publicInputs : {"kept", "empty", "missing"}]

Damaged(proof, d) ==
    [proofHash |-> CASE d.proofHash = "kept" -> proof.proofHash
                     [] d.proofHash = "empty" -> EmptyString
                     [] d.proofHash = "missing" -> Undefined,
     publicInputs |-> CASE d.publicInputs = "kept" -> proof.publicInputs
                        [] d.publicInputs = "empty" -> <<>>
                        [] d.publicInputs = "missing" -> Undefined,
     proof |-> IF d.proof = "missing" THEN NoComponents
               ELSE [a |-> IF d.a = "kept" THEN proof.proof.a ELSE Undefined,
                     b |-> IF d.b = "kept" THEN proof.proof.b ELSE Undefined,
                     c |-> IF d.c = "kept" THEN proof.proof.c ELSE Undefined]]

\* verifyProofLocally(proof) on the i-th proof the caller got, damaged by d
ProveVerify(i, d) ==
    /\ calls < MaxProofs
    /\ i \in DOMAIN held
    /\ held[i].op = "generateProof"
    /\ calls' = calls + 1
    /\ LET proof == Damaged(held[i].result.value, d)
       IN  held' = Append(held, [op |-> "verifyProofLocally",
                                 proof |-> proof,
                                 damage |-> d,
                                 result |-> Returned(verifyProofLocally(proof))])
    /\ UNCHANGED <<userAddress, cache, pc, call, broadcasts, polls, pollSeen, waitResult,
                   outcome>>

VerifyNext ==
    \/ /\ \E assessment \in ProveAssessments, r \in 1..MaxFresh : ProveGenerate(assessment, r)
       /\ UNCHANGED <<scoreVars, envVars>>
    \/ /\ \E i \in 1..MaxProofs, d \in Damages : ProveVerify(i, d)
       /\ UNCHANGED <<scoreVars, envVars>>

SpecVerify == ProveInit /\ [][VerifyNext]_vars

\* ------------------------------------------------------------------------
\* SpecRace: CreditScoreSDK with a caller that changes the active address
\* ------------------------------------------------------------------------
\* addresses the caller passes to init, at any time
RaceAddresses == {A1, A2}

RaceInit ==
    /\ scoreMetrics = NoMetrics
    /\ scoreResult = NoAssessment
    /\ scorePrev = NoAssessment
    /\ now = Epoch
    /\ mockData = FALSE
    /\ userAddress = NoAddress
    /\ cache = [a \in RaceAddresses |-> NoMetrics]
    /\ pc = "idle"
    /\ call = NoCall
    /\ held = [metrics |-> NoMetrics, assessment |-> NoAssessment, proof |-> NoProof]
    /\ broadcasts = <<>>
    /\ polls = 0
    /\ pollSeen = {}
    /\ waitResult = NoOutcome
    /\ outcome = NoOutcome
    /\ calls = 0

\* The calls of Spec, with init free to store either address while another
\* call is suspended at an await; the ledger answers every query, and the
\* proofs submitted are those generateProof returned.
RaceNext ==
    \/ /\ \E address \in RaceAddresses : SdkInit(address)
       /\ UNCHANGED <<scoreVars, envVars>>
    \/ /\ \E api \in {"fetchWalletMetrics", "issueCreditFlow"} : SdkFetchStart(api)
       /\ UNCHANGED <<scoreVars, envVars>>
    \/ /\ SdkFetchComplete(TypicalAnswers)
       /\ UNCHANGED <<scoreVars, envVars>>
    \/ /\ SdkCalculateScore
       /\ UNCHANGED <<scoreVars, envVars>>
    \/ /\ SdkGenerateStart
       /\ UNCHANGED <<scoreVars, envVars>>
    \/ /\ \E r \in RandomDraws : SdkProofComplete(r)
       /\ UNCHANGED <<scoreVars, envVars>>
    \/ /\ held.proof # NoProof
       /\ SdkIssueStart(held.proof)
       /\ UNCHANGED <<scoreVars, envVars>>
    \/ /\ \E r \in RandomDraws : SdkBroadcastComplete(TRUE, r)
       /\ UNCHANGED <<scoreVars, envVars>>
    \/ /\ \E status \in {"pending", "confirmed"}, random \in RandomScores :
                SdkPoll(status, 0, random)
       /\ UNCHANGED <<scoreVars, envVars>>

SpecRace == RaceInit /\ [][RaceNext]_vars

\* ------------------------------------------------------------------------
\* SpecSlot: CreditScoreSDK with every call that needs the active address
\* ------------------------------------------------------------------------
\* null
Null == [none |-> "null"]

\* BlockchainAdapter.fetchCreditScore: response.value || null, and null when
\* the request fails
fetchCreditScore(resp) ==
    IF resp = Fail THEN Null
    ELSE IF resp.value = 0 THEN Null
    ELSE resp.value

\* what the ledger answers to the lookup in the scores mapping
ScoreAnswers == {Fail, [value |-> 0], [value |-> 700]}

\* CreditScoreSDK.fetchCreditScore up to the await of the lookup
SdkScoreStart ==
    /\ Begins
    /\ IF userAddress = NoAddress
       THEN Throws("fetchCreditScore", NotInitialized)
       ELSE /\ pc' = "lookup"
            /\ call' = [api |-> "fetchCreditScore", address |-> userAddress]
            /\ outcome' = NoOutcome
    /\ UNCHANGED <<userAddress, cache, held, broadcasts>>

\* the lookup is answered, or fails
SdkScoreComplete(resp) ==
    /\ pc = "lookup"
    /\ Ends("fetchCreditScore", Returned(fetchCreditScore(resp)))
    /\ UNCHANGED <<userAddress, cache, held, broadcasts, polls, pollSeen, waitResult, calls>>

\* The calls of Spec and fetchCreditScore; the ledger answers every query
\* and accepts every broadcast.  The proof handed to issueCredit is the one
\* generateProof returned, or one the caller had before.
SlotNext ==
    \/ /\ \E address \in InitArguments : SdkInit(address) \/ SdkInitRejected(address)
       /\ UNCHANGED <<scoreVars, envVars>>
    \/ /\ \E api \in {"fetchWalletMetrics", "issueCreditFlow"} : SdkFetchStart(api)
       /\ UNCHANGED <<scoreVars, envVars>>
    \/ /\ SdkFetchComplete(TypicalAnswers)
       /\ UNCHANGED <<scoreVars, envVars>>
    \/ /\ SdkCalculateScore
       /\ UNCHANGED <<scoreVars, envVars>>
    \/ /\ SdkGenerateStart
       /\ UNCHANGED <<scoreVars, envVars>>
    \/ /\ \E r \in RandomDraws : SdkProofComplete(r)
       /\ UNCHANGED <<scoreVars, envVars>>
    \/ /\ \E proof \in ({held.proof} \ {NoProof}) \cup SubmitProofs : SdkIssueStart(proof)
       /\ UNCHANGED <<scoreVars, envVars>>
    \/ /\ \E r \in RandomDraws : SdkBroadcastComplete(TRUE, r)
       /\ UNCHANGED <<scoreVars, envVars>>
    \/ /\ \E status \in {"pending", "confirmed"}, random \in RandomScores :
                SdkPoll(status, 0, random)
       /\ UNCHANGED <<scoreVars, envVars>>
    \/ /\ SdkScoreStart
       /\ UNCHANGED <<scoreVars, envVars>>
    \/ /\ \E resp \in ScoreAnswers : SdkScoreComplete(resp)
       /\ UNCHANGED <<scoreVars, envVars>>

SpecSlot == SubmitInit /\ [][SlotNext]_vars

\* ------------------------------------------------------------------------
\* SpecScore: a caller of ScoringEngine
\* ------------------------------------------------------------------------
\* Sampled inputs: one below range, the range ends, and the values around
\* each threshold and each point where a bonus reaches its cap, plus the
\* values used by the unit tests.
TxInputs == {-1, 0, 9, 10, 11, 20, 29, 30, 50}
AgeInputs == {-1, 0, 2, 3, 6, 9, 10, 24}
DefiInputs == {-1, 0, 19, 20, 40, 53, 54, 80, 100, 101}
RateInputs == {-1, 0, 74, 75, 80, 100, 101, 149, 150}
BalanceInputs == {-1, 0}
ScoreAddresses == {ALEO1 \o <<"t">>, <<"i", "n", "v">>}

MetricsInputs ==
    [address : ScoreAddresses,
     transactionCount : TxInputs,
     walletAgeMonths : AgeInputs,
     defiScore : DefiInputs,
     repaymentRate : RateInputs,
     tokenBalance : BalanceInputs,
     lastTransactionDate : {0}]

ScoreInit ==
    /\ scoreMetrics \in MetricsInputs
    /\ scoreResult = NoAssessment
    /\ scorePrev = NoAssessment
    /\ now = Epoch
    /\ mockData = FALSE
    /\ SdkConstructed

\* ScoringEngine.calculateScore(metrics) / CreditScoreSDK.calculateScore
ScoreCalculate ==
    /\ scoreResult = NoAssessment
    /\ scoreResult' = calculateScore(scoreMetrics, now)
    /\ UNCHANGED <<scoreMetrics, scorePrev, envVars, sdkVars>>

\* The caller changes one field of the record and scores it again, keeping
\* the assessment it had (it compares two assessments, so it does this once).
ScoreRecalculate ==
    /\ scoreResult # NoAssessment
    /\ scorePrev = NoAssessment
    /\ \E m \in
            {[scoreMetrics EXCEPT !.transactionCount = v] : v \in TxInputs}
            \cup {[scoreMetrics EXCEPT !.walletAgeMonths = v] : v \in AgeInputs}
            \cup {[scoreMetrics EXCEPT !.defiScore = v] : v \in DefiInputs}
            \cup {[scoreMetrics EXCEPT !.repaymentRate = v] : v \in RateInputs} :
        /\ m # scoreMetrics
        /\ scoreMetrics' = m
        /\ scoreResult' = calculateScore(m, now)
        /\ scorePrev' = scoreResult
    /\ UNCHANGED <<envVars, sdkVars>>

ScoreNext == ScoreCalculate \/ ScoreRecalculate

SpecScore == ScoreInit /\ [][ScoreNext]_vars

\* ------------------------------------------------------------------------
\* Properties of ScoringEngine (checked under SpecScore)
\* ------------------------------------------------------------------------
Scored == scoreResult # NoAssessment

\* The ranges the data model declares, as the claims state them (the address
\* check of validateMetrics is separate).
InDeclaredRanges(m) ==
    /\ m.transactionCount >= 0
    /\ m.walletAgeMonths >= 0
    /\ m.defiScore >= 0 /\ m.defiScore <= 100
    /\ m.repaymentRate >= 0 /\ m.repaymentRate <= 100
    /\ m.tokenBalance >= 0

\* C1: every metrics record that passes validateMetrics is scored into
\* 300 <= finalScore <= 850.
C1_ScoreInRange ==
    (Scored /\ validateMetrics(scoreMetrics) = "ok")
        => /\ InDeclaredRanges(scoreMetrics)
           /\ scoreResult.finalScore >= 300
           /\ scoreResult.finalScore <= 850

\* A validated record with three bonuses below their thresholds was scored.
C1_Witness ==
    /\ Scored
    /\ validateMetrics(scoreMetrics) = "ok"
    /\ scoreMetrics.transactionCount = 9
    /\ scoreMetrics.walletAgeMonths = 2
    /\ scoreMetrics.defiScore = 19
    /\ scoreMetrics.repaymentRate = 100
    /\ scoreResult.finalScore = 350

C3_RiskTier ==
    Scored =>
        /\ (scoreResult.finalScore >= 750 => scoreResult.riskLevel = "low")
        /\ (scoreResult.finalScore >= 500 /\ scoreResult.finalScore <= 749
                => scoreResult.riskLevel = "medium")
        /\ (scoreResult.finalScore <= 499 => scoreResult.riskLevel = "high")

\* An assessment exactly on the medium breakpoint was returned.
C3_Witness ==
    /\ Scored
    /\ scoreResult.finalScore = 500
    /\ scoreResult.riskLevel = "medium"

\* C4 (as claimed): calculate returns no assessment for a record with a field
\* outside its declared range.
C4_RejectsOutOfRange ==
    ~InDeclaredRanges(scoreMetrics) => ~Scored

\* C5 (as claimed): the saturating metrics (50, 24, 80, 100) score 850 / low.
C5_SaturatingIsMax ==
    (/\ Scored
     /\ validateMetrics(scoreMetrics) = "ok"
     /\ scoreMetrics.transactionCount = 50
     /\ scoreMetrics.walletAgeMonths = 24
     /\ scoreMetrics.defiScore = 80
     /\ scoreMetrics.repaymentRate = 100)
        => (scoreResult.finalScore = 850 /\ scoreResult.riskLevel = "low")

\* Exactly one of the four scored fields differs between m1 and m2, and it is
\* larger in m2.
RaisedOneField(m1, m2) ==
    \/ /\ m2.transactionCount > m1.transactionCount
       /\ m2 = [m1 EXCEPT !.transactionCount = m2.transactionCount]
    \/ /\ m2.walletAgeMonths > m1.walletAgeMonths
       /\ m2 = [m1 EXCEPT !.walletAgeMonths = m2.walletAgeMonths]
    \/ /\ m2.defiScore > m1.defiScore
       /\ m2 = [m1 EXCEPT !.defiScore = m2.defiScore]
    \/ /\ m2.repaymentRate > m1.repaymentRate
       /\ m2 = [m1 EXCEPT !.repaymentRate = m2.repaymentRate]

\* C6: of two valid records that differ in one scored field only, the one with
\* the larger value never gets the smaller finalScore.
C6_Monotone ==
    (/\ Scored
     /\ scorePrev # NoAssessment
     /\ validateMetrics(scorePrev.metrics) = "ok"
     /\ validateMetrics(scoreResult.metrics) = "ok"
     /\ RaisedOneField(scorePrev.metrics, scoreResult.metrics))
        => scoreResult.finalScore >= scorePrev.finalScore

\* Two valid records that differ in the activity score only were scored, and
\* the larger one got the larger score.
C6_Witness ==
    /\ Scored
    /\ scorePrev # NoAssessment
    /\ validateMetrics(scoreResult.metrics) = "ok"
    /\ RaisedOneField(scorePrev.metrics, scoreResult.metrics)
    /\ scorePrev.metrics.defiScore = 19
    /\ scoreResult.metrics.defiScore = 40
    /\ scoreResult.finalScore = scorePrev.finalScore + 60

\* ------------------------------------------------------------------------
\* Claims about CreditScoreSDK and BlockchainAdapter (Spec)
\* ------------------------------------------------------------------------
FlowEnded == outcome.kind # "none" /\ outcome.api = "issueCreditFlow"

\* C7: every outcome of issueCreditFlow is either a returned result with
\* success, a non-empty transaction id and a credit record, or a thrown error
\* that carries a code.
C7_FlowOutcomeShape ==
    FlowEnded =>
        \/ /\ outcome.kind = "returned"
           /\ outcome.result.value.success
           /\ outcome.result.value.transactionId # EmptyString
           /\ outcome.result.value.creditRecord # NoRecord
        \/ /\ outcome.kind = "thrown"
           /\ outcome.result.error.code # ""

\* C8: every proof that is built into a transaction or broadcast passes
\* verifyProofLocally.
C8_VerifiedBeforeSubmission ==
    /\ pc = "broadcasting" => verifyProofLocally(call.proof)
    /\ \A i \in 1..Len(broadcasts) : verifyProofLocally(broadcasts[i].proof)

\* C9: once a proof was broadcast and its transaction confirmed, no later
\* broadcast carries the same proofHash.
C9_NoSecondSubmission ==
    \A i, j \in 1..Len(broadcasts) :
        /\ i < j
        /\ verifyProofLocally(broadcasts[i].proof)
        /\ verifyProofLocally(broadcasts[j].proof)
        /\ broadcasts[i].accepted
        /\ broadcasts[i].status = "confirmed"
        => broadcasts[j].proof.proofHash # broadcasts[i].proof.proofHash

WaitEnded == waitResult # NoOutcome
SubmitEnded ==
    /\ outcome.kind # "none"
    /\ outcome.api \in {"issueCredit", "issueCreditFlow", "submitProof"}

\* C10: waitForConfirmation makes at most MAX_ATTEMPTS (20) status queries
\* and has ended after the 20th; when every query answered pending, it made
\* 20 of them and threw the confirmation timeout error, so that submitProof
\* has no credit record.
C10_PollingBounded ==
    /\ polls <= MAX_ATTEMPTS
    /\ polls = MAX_ATTEMPTS => pc # "polling" /\ WaitEnded
    /\ WaitEnded /\ pollSeen = {"pending"} =>
        /\ polls = MAX_ATTEMPTS
        /\ waitResult = Thrown(TransactionError("Transaction confirmation timeout"))
    /\ WaitEnded /\ pollSeen = {"pending"} /\ SubmitEnded =>
        /\ outcome.kind = "returned"
        /\ ~outcome.result.value.success
        /\ outcome.result.value.creditRecord = NoRecord

C10_Witness ==
    /\ WaitEnded
    /\ pollSeen = {"pending"}
    /\ polls = MAX_ATTEMPTS
    /\ waitResult.kind = "thrown"
    /\ Len(broadcasts) = 1 /\ broadcasts[1].status = "pending"

\* ------------------------------------------------------------------------
\* Claims about BlockchainAdapter.submitProof (SpecSubmit)
\* ------------------------------------------------------------------------
\* the broadcast of the submitProof call that ended last
LastBroadcast == broadcasts[Len(broadcasts)]
SubmitResult == outcome.result.value

\* C11: when a status query answers failed, waitForConfirmation ends at that
\* query with the error of the on-chain failure: no further query is made,
\* and submitProof returns no credit record.
C11_FailedEndsSubmission ==
    "failed" \in pollSeen =>
        /\ pc # "polling"
        /\ waitResult = Thrown(TransactionError("Transaction failed on-chain"))
        /\ SubmitEnded
        /\ ~SubmitResult.success
        /\ SubmitResult.creditRecord = NoRecord

\* C12: when every status query fails, waitForConfirmation makes
\* MAX_ATTEMPTS of them and ends with the confirmation timeout error, and
\* submitProof returns no success and no credit record.
C12_QueryErrorIsTransient ==
    pollSeen = {"error"} =>
        /\ WaitEnded => /\ polls = MAX_ATTEMPTS
                        /\ waitResult = Thrown(TransactionError("Transaction confirmation timeout"))
        /\ SubmitEnded => /\ ~SubmitResult.success
                          /\ SubmitResult.creditRecord = NoRecord

\* C13: when the broadcast request fails, submitProof does not start to poll
\* and returns a failure with no transaction id and no credit record; one
\* call broadcasts at most once.
C13_BroadcastFailureReturned ==
    /\ Len(broadcasts) <= calls
    /\ pc = "polling" => broadcasts[call.entry].accepted
    /\ (pc = "idle" /\ SubmitEnded /\ ~LastBroadcast.accepted) =>
        /\ polls = 0
        /\ ~SubmitResult.success
        /\ SubmitResult.transactionId = EmptyString
        /\ SubmitResult.creditRecord = NoRecord

\* C14: when a status query answered confirmed, submitProof returns success
\* with a non-empty transaction id and a credit record whose owner is the
\* address it was called with and whose score is in 300..850.
C14_ConfirmedGivesRecord ==
    (WaitEnded /\ SubmitEnded /\ "confirmed" \in pollSeen) =>
        /\ polls <= MAX_ATTEMPTS
        /\ outcome.kind = "returned"
        /\ SubmitResult.success
        /\ SubmitResult.transactionId # EmptyString
        /\ SubmitResult.creditRecord # NoRecord
        /\ SubmitResult.creditRecord.owner = LastBroadcast.transaction.caller
        /\ SubmitResult.creditRecord.score \in 300..850

C14_Witness ==
    /\ WaitEnded /\ SubmitEnded
    /\ pollSeen = {"pending", "confirmed"}
    /\ LastBroadcast.transaction.caller = A2
    /\ SubmitResult.success
    /\ SubmitResult.creditRecord.owner = A2
    /\ SubmitResult.creditRecord.score = 849

\* C15: submitProof called with the empty string as private key returns a
\* failure: success is false, error is defined, there is no credit record.
C15_EmptyKeyFails ==
    (pc = "idle" /\ SubmitEnded /\ LastBroadcast.privateKey = "") =>
        /\ outcome.kind = "returned"
        /\ ~SubmitResult.success
        /\ SubmitResult.error # NoErrorMessage
        /\ SubmitResult.creditRecord = NoRecord

\* ------------------------------------------------------------------------
\* Claims about DataAggregator (SpecStore, SpecFetch)
\* ------------------------------------------------------------------------
\* the call that ended i-th is a fetchWalletMetrics call that returned metrics
FetchReturned(i) ==
    /\ held[i].op = "fetchWalletMetrics"
    /\ held[i].result.kind = "returned"

\* the call that ended k-th removed address from the cache
Invalidates(k, address) ==
    \/ held[k].op = "clearAllCache"
    \/ held[k].op = "clearCache" /\ held[k].address = address

\* C16: two fetches of the same address that both end within one ttl, with
\* no clearCache of that address and no clearAllCache ending between them,
\* return metrics that are equal in every field, lastTransactionDate
\* included, whatever other calls end between them.
C16_CacheProperty ==
    \A i, j \in DOMAIN held :
        (/\ i < j
         /\ FetchReturned(i)
         /\ FetchReturned(j)
         /\ held[i].address = held[j].address
         /\ held[j].at - held[i].at <= METRICS_TTL
         /\ \A k \in (i + 1)..(j - 1) : ~Invalidates(k, held[i].address))
            => held[i].result.value = held[j].result.value

\* the metrics field a query fills, from the answer it got at time t: its
\* fallback when the request failed, the value of the response otherwise
FallbackOrResponse(address, answers, t) ==
    [transactionCount |-> IF answers.transactions = Fail
                          THEN hashAddress(address) % 100
                          ELSE answers.transactions.count,
     walletAgeMonths |-> IF answers.info = Fail
                         THEN (hashAddress(address) % 36) + 1
                         ELSE (t - answers.info.firstSeen) \div MONTH,
     defiScore |-> IF answers.defi = Fail
                   THEN hashAddress(address) % 101
                   ELSE answers.defi.score,
     repaymentRate |-> IF answers.lending = Fail
                       THEN (hashAddress(address) % 50) + 50
                       ELSE answers.lending.repaymentRate,
     tokenBalance |-> IF answers.balance = Fail
                      THEN (hashAddress(address) % 100000) + 1000
                      ELSE answers.balance.balance]

C18_RejectsMalformed ==
    /\ userAddress # NoAddress => isValidAddress(userAddress)
    /\ pc = "fetching" => isValidAddress(call.address)

\* ------------------------------------------------------------------------
\* Claims about the steps and the flow (Spec)
\* ------------------------------------------------------------------------
\* the errors that fetchWalletMetrics, calculateScore, generateProof and
\* issueCredit throw when the caller calls them one after the other
StepFailures ==
    {NotInitialized,
     RPCError("Invalid Aleo address format"),
     SDKError("Proof verification failed", "INVALID_PROOF")}
        \cup {PlainError(message) : message \in
                {"Invalid Aleo address format",
                 "Transaction count cannot be negative",
                 "Wallet age cannot be negative",
                 "DeFi score must be between 0 and 100",
                 "Repayment rate must be between 0 and 100",
                 "Token balance cannot be negative"}}

\* C19: issueCreditFlow ends as the four steps called in sequence end on
\* the same address, key, ledger answers and random draws: when a step
\* throws, the caller of the flow gets the failure that the caller of the
\* step gets.
C19_FlowEndsAsSteps ==
    (outcome.kind = "thrown" /\ outcome.api # "init") =>
        outcome.result.error \in StepFailures

\* ------------------------------------------------------------------------
\* Claims about ProofGenerator (SpecProve)
\* ------------------------------------------------------------------------
\* C20: over any sequence of generateProof calls, calls on the same
\* assessment included, no two returned proofs have the same proofHash.
C20_HashesDiffer ==
    \A i, j \in DOMAIN held :
        i # j => held[i].result.value.proofHash # held[j].result.value.proofHash

C20_Witness ==
    \E i, j \in DOMAIN held :
        /\ i < j
        /\ held[i].assessment = held[j].assessment
        /\ held[i].result.value.publicInputs = held[j].result.value.publicInputs
        /\ held[i].result.value.proofHash # held[j].result.value.proofHash

\* ------------------------------------------------------------------------
\* Claims about verifyProofLocally (SpecVerify)
\* ------------------------------------------------------------------------
\* C21: verifyProofLocally always returns, and it returns false exactly
\* when proofHash is empty or missing, or one of the components a, b, c is
\* missing, or publicInputs is empty or missing; it returns true for every
\* other proof.
C21_VerifyIsStructural ==
    \A i \in DOMAIN held :
        held[i].op = "verifyProofLocally" =>
            /\ held[i].result.kind = "returned"
            /\ held[i].result.value = FALSE <=>
                \/ held[i].damage.proofHash # "kept"
                \/ held[i].damage.proof = "missing"
                \/ held[i].damage.a = "missing"
                \/ held[i].damage.b = "missing"
                \/ held[i].damage.c = "missing"
                \/ held[i].damage.publicInputs # "kept"

C21_Witness ==
    \E i, j \in DOMAIN held :
        /\ held[i].op = "verifyProofLocally"
        /\ held[j].op = "verifyProofLocally"
        /\ \A f \in DOMAIN held[i].damage : held[i].damage[f] = "kept"
        /\ held[i].result.value = TRUE
        /\ held[j].damage = [held[i].damage EXCEPT !.publicInputs = "empty"]
        /\ held[j].result.value = FALSE

\* ------------------------------------------------------------------------
\* Claims about the active address (SpecRace)
\* ------------------------------------------------------------------------
\* C22: in every run of the flow or of the manual steps, also when init is
\* called with another address while a call is suspended, the address a
\* transaction is submitted for and the owner of the credit record are the
\* address in the public inputs of the submitted proof, the address whose
\* metrics were fetched and scored.
C22_SubmittedForScoredAddress ==
    /\ \A i \in DOMAIN broadcasts :
            broadcasts[i].transaction.caller = broadcasts[i].proof.publicInputs[3]
    /\ (SubmitEnded /\ outcome.kind = "returned" /\ SubmitResult.success) =>
            SubmitResult.creditRecord.owner = LastBroadcast.proof.publicInputs[3]

LedgerTxId == <<"at1", "ledger", Len(broadcasts)>>

ConfirmationTimedOut ==
    waitResult = Thrown(TransactionError("Transaction confirmation timeout"))

\* C24: when the ledger accepted the broadcast with transaction id T and the
\* confirmation does not complete within the 20 attempts, the failure that
\* submitProof delivers carries T.
C24_TimeoutIdentifiesTransaction ==
    (/\ pc = "idle"
     /\ SubmitEnded
     /\ LastBroadcast.accepted
     /\ ConfirmationTimedOut)
        => SubmitResult.transactionId = LedgerTxId

\* the only description of a failure in the result of submitProof
Delivered == SubmitResult.error

\* C25: the three kinds of submission failure reach the caller as three
\* different inspectable values: a rejected broadcast, a confirmation
\* timeout and an on-chain failure each end submitProof with a failure, and
\* what the failure carries differs between the kinds.
C25_FailureKindsDistinct ==
    (pc = "idle" /\ SubmitEnded /\ outcome.kind = "returned") =>
        /\ ~LastBroadcast.accepted =>
                /\ ~SubmitResult.success
                /\ Delivered \notin {NoErrorMessage,
                                     "Transaction confirmation timeout",
                                     "Transaction failed on-chain"}
        /\ (LastBroadcast.accepted /\ "failed" \in pollSeen) =>
                /\ ~SubmitResult.success
                /\ Delivered \notin {NoErrorMessage, "Transaction confirmation timeout"}
        /\ (LastBroadcast.accepted /\ pollSeen = {"pending"}) =>
                /\ ~SubmitResult.success
                /\ Delivered \notin {NoErrorMessage, "Transaction failed on-chain"}

\* ------------------------------------------------------------------------
\* Further claims about DataAggregator (SpecStore)
\* ------------------------------------------------------------------------
\* the call that ended i-th is a fetch that returned what the cache held
CacheHit(i) ==
    /\ ~mockData
    /\ FetchReturned(i)
    /\ held[i].answers = NoAnswers

\* C26: metrics that a fetch returns from the cache were acquired from the
\* ledger (lastTransactionDate is the time of the join) less than one ttl
\* before that fetch, whatever fetches came before and however spaced.
C26_CachedMetricsTimeBounded ==
    \A i \in DOMAIN held :
        CacheHit(i) => held[i].at - held[i].result.value.lastTransactionDate < METRICS_TTL

\* C27: every metrics record a fetch returns, whatever the five queries
\* were answered and also when two fetches of one uncached address run at
\* the same time, carries the requested address and is accepted by
\* validateMetrics: no negative count, age or balance, score and rate in
\* 0..100.
C27_ReturnedMetricsValid ==
    \A i \in DOMAIN held :
        FetchReturned(i) =>
            /\ held[i].result.value.address = held[i].address
            /\ validateMetrics(held[i].result.value) = "ok"

\* getCacheStats().size
CacheSize(c) == Cardinality({a \in DOMAIN c : c[a] # NoMetrics})

\* C28: in every configuration, when a fetch returns metrics, the cache
\* then holds an entry for its address that equals the returned metrics,
\* and the size of the cache is between 1 and its capacity.
C28_FetchPopulatesCache ==
    [][(/\ Len(held') = Len(held) + 1
        /\ held'[Len(held')].op = "fetchWalletMetrics"
        /\ held'[Len(held')].result.kind = "returned")
            => /\ cacheGet(cache', held'[Len(held')].address, now')
                    = held'[Len(held')].result.value
               /\ CacheSize(cache') \in 1..MAX_CACHE_SIZE]_vars

\* C29: for every assessment calculateScore returns, getScoreBreakdown
\* reports the four bonuses calculateScore added: their sum is bonusPoints,
\* total is finalScore, which is min(850, base + sum), base is 300 and
\* maxPossible is 850.
C29_BreakdownIsProjection ==
    Scored =>
        LET breakdown == getScoreBreakdown(scoreResult)
            sum == breakdown.bonuses.transactions + breakdown.bonuses.walletAge
                     + breakdown.bonuses.defiActivity + breakdown.bonuses.repaymentRate
        IN  /\ sum = scoreResult.bonusPoints
            /\ breakdown.total = scoreResult.finalScore
            /\ breakdown.total = Min(850, breakdown.base + sum)
            /\ breakdown.base = 300
            /\ breakdown.maxPossible = 850

C29_Witness ==
    /\ Scored
    /\ scoreMetrics.transactionCount = 20
    /\ scoreMetrics.walletAgeMonths = 24
    /\ scoreMetrics.defiScore = 40
    /\ scoreMetrics.repaymentRate = 80
    /\ getScoreBreakdown(scoreResult).bonuses =
            [transactions |-> 50, walletAge |-> 100, defiActivity |-> 60, repaymentRate |-> 10]
    /\ getScoreBreakdown(scoreResult).total = 520

\* ------------------------------------------------------------------------
\* Claims about the active address slot (SpecSlot)
\* ------------------------------------------------------------------------
\* a call that needs the active address has ended
NeedsAddressEnded ==
    /\ outcome.kind # "none"
    /\ outcome.api \in {"fetchWalletMetrics", "issueCredit", "issueCreditFlow",
                        "fetchCreditScore"}

\* init has thrown INVALID_ADDRESS in this step
InitRejectedNow ==
    /\ outcome' # outcome
    /\ outcome'.kind = "thrown"
    /\ outcome'.api = "init"
    /\ outcome'.result = Thrown(SDKError("Invalid Aleo address format", "INVALID_ADDRESS"))

\* C30: a metrics query, a broadcast, a status query or a score lookup is
\* in flight only while the slot holds an address init accepted; while no
\* init has succeeded, fetchWalletMetrics, issueCredit, fetchCreditScore and
\* issueCreditFlow end with NOT_INITIALIZED and nothing was broadcast; and
\* an init that throws INVALID_ADDRESS leaves the slot as it was.
C30_SlotGuardsNetwork ==
    /\ [](pc \in {"fetching", "broadcasting", "polling", "lookup"}
            => userAddress \in SdkAddresses)
    /\ []((userAddress = NoAddress /\ NeedsAddressEnded)
            => /\ outcome.result = Thrown(NotInitialized)
               /\ broadcasts = <<>>)
    /\ [][InitRejectedNow => userAddress' = userAddress]_vars

C30_Witness ==
    /\ userAddress = A1
    /\ calls >= 2
    /\ outcome.kind = "thrown"
    /\ outcome.api = "init"
    /\ outcome.result.error.code = "INVALID_ADDRESS"

====
